---- MODULE Spec2Model ----
(***************************************************************************)
(* Nested reorderable list (SortableNestedList): groups of items that are  *)
(* reordered by drag gestures, collapsed by a toggle, with a live drop     *)
(* indicator.  The model follows the React component: the state hooks are  *)
(* the variables, the event handlers are the actions, the state updaters   *)
(* passed to setGroups are operators that also report what they do to the  *)
(* previous snapshot they are given.                                       *)
(*                                                                         *)
(* Encoding of JavaScript values:                                          *)
(*   null / undefined option  -> <<>> (None), a value x -> <<x>> (Some(x)) *)
(*   an Item {id, content}    -> its id (content never changes)            *)
(*   an undefined array entry -> the string "undefined"                    *)
(*   array indices            -> 0-based integers, -1 for "not found"      *)
(***************************************************************************)
EXTENDS Integers, Sequences, FiniteSets, TLC

VARIABLES groups, activeId, activeData, dropIndicator, error, snapshot, snapshotAfter, lastEvent, ops

vars == <<groups, activeId, activeData, dropIndicator, error, snapshot, snapshotAfter, lastEvent, ops>>

\* ---------------------------------------------------------------- bounds
\* number of operations on the list (drag-ends and collapse toggles) in one
\* behaviour
MaxOps == 2

\* number of drag-ends in one behaviour of append gestures
MaxAppends == 3
\* number of operations in one behaviour under synthetic (stale) events
MaxStaleOps == 1

\* ------------------------------------------------------- option encoding
None == <<>>
Some(x) == <<x>>
Undefined == "undefined"

\* ------------------------------------------------------------ identifiers
\* ids of the seed items, by the number in the id ("item-3" -> 3)
ItemId == <<"item-1", "item-2", "item-3", "item-4", "item-5", "item-6", "item-7">>
\* an item id that is in no group (a stale reference)
StaleItemId == "item-8"
SeedGroupIds == <<"group-1", "group-2", "group-3">>
\* a group id that is not in the list (a stale reference)
StaleGroupId == "group-4"
\* id of the empty placeholder of a group: `empty-${groupId}`
EmptyId(g) == "empty-" \o g

\* "item-3" -> 3 ; anything that does not contain item-<digits> -> null
getItemNumber(itemId) ==
  IF \E n \in DOMAIN ItemId : ItemId[n] = itemId
    THEN Some(CHOOSE n \in DOMAIN ItemId : ItemId[n] = itemId)
    ELSE IF itemId = StaleItemId THEN Some(Len(ItemId) + 1) ELSE None

\* ------------------------------------------------- JavaScript array model
Min(a, b) == IF a < b THEN a ELSE b
Max(a, b) == IF a > b THEN a ELSE b

\* Array.prototype.findIndex for "element equals x" / "element.id equals x"
IndexOf(s, x) ==
  IF \E i \in 1..Len(s) : s[i] = x
    THEN (CHOOSE i \in 1..Len(s) : s[i] = x /\ \A j \in 1..(i-1) : s[j] # x) - 1
    ELSE -1

findGroupIndex(gs, gid) ==
  IF \E i \in 1..Len(gs) : gs[i].id = gid
    THEN (CHOOSE i \in 1..Len(gs) : gs[i].id = gid /\ \A j \in 1..(i-1) : gs[j].id # gid) - 1
    ELSE -1

\* the actual start index Array.prototype.splice uses
SpliceStart(s, start) == IF start < 0 THEN Max(Len(s) + start, 0) ELSE Min(start, Len(s))

\* s.splice(start, 1): the removed elements
SpliceRemoved(s, start) ==
  LET k == SpliceStart(s, start) IN IF k < Len(s) THEN <<s[k + 1]>> ELSE <<>>

\* s.splice(start, 1): the array afterwards
SpliceRemove(s, start) ==
  LET k == SpliceStart(s, start)
  IN IF k < Len(s) THEN SubSeq(s, 1, k) \o SubSeq(s, k + 2, Len(s)) ELSE s

\* s.splice(start, 0, x): the array afterwards
SpliceInsert(s, start, x) ==
  LET k == SpliceStart(s, start)
  IN SubSeq(s, 1, k) \o <<x>> \o SubSeq(s, k + 1, Len(s))

\* const [movedItem] = removed
First(removed) == IF Len(removed) > 0 THEN removed[1] ELSE Undefined

\* arrayMove of @dnd-kit/sortable: the insertion index is computed on the
\* full array, then the element is spliced out and spliced in
arrayMove(array, from, to) ==
  LET at == IF to < 0 THEN Len(array) + to ELSE to
      el == First(SpliceRemoved(array, from))
  IN SpliceInsert(SpliceRemove(array, from), at, el)

\* ------------------------------------------------------------- the model
\* !group.isCollapsed on an optional boolean (undefined is falsy)
Truthy(flag) == flag = Some(TRUE)
Not(flag) == Some(~Truthy(flag))

\* useState<Group[]>([...]): the seed list; no group has isCollapsed set
SeedGroups ==
  << [id |-> "group-1", items |-> <<"item-1", "item-2", "item-3">>, isCollapsed |-> None],
     [id |-> "group-2", items |-> <<"item-4", "item-5">>, isCollapsed |-> None],
     [id |-> "group-3", items |-> <<"item-6", "item-7">>, isCollapsed |-> None] >>

\* The data each sortable element registers with the gesture library
\* (useSortable({id, data})): an element is its id and data.current
GroupElement(g) == [id |-> g, type |-> "group", groupId |-> Undefined]
ItemElement(i, g) == [id |-> i, type |-> "item", groupId |-> g]
EmptyElement(g) == [id |-> EmptyId(g), type |-> "empty", groupId |-> g]

Range(s) == {s[i] : i \in 1..Len(s)}

\* the elements mounted for a list: every group header, and the items and
\* the empty placeholder of every group that is not collapsed
RenderedGroups(gs) == {GroupElement(gs[k].id) : k \in 1..Len(gs)}
RenderedItems(gs) ==
  UNION {{ItemElement(i, gs[k].id) : i \in Range(gs[k].items)} :
           k \in {n \in 1..Len(gs) : ~Truthy(gs[n].isCollapsed)}}
RenderedEmpties(gs) ==
  {EmptyElement(gs[k].id) : k \in {n \in 1..Len(gs) : ~Truthy(gs[n].isCollapsed)}}

\* what can be picked up (the empty placeholder has no drag listeners)
Draggables(gs) == RenderedGroups(gs) \cup RenderedItems(gs)
\* what the pointer can be over
Droppables(gs) == RenderedGroups(gs) \cup RenderedItems(gs) \cup RenderedEmpties(gs)

\* ------------------------------------------------------ setGroups updaters
\* An updater is given the previous snapshot gs.  It yields
\*   groups : the list the state holds afterwards,
\*   prev   : what the previous snapshot object holds afterwards (the item
\*            arrays and group objects are shared with it by [...groups]),
\*   threw  : a TypeError was raised (property of undefined).
Outcome(gs, prev, threw) == [groups |-> gs, prev |-> prev, threw |-> threw]

\* a faulty removeAndPush: the item is pushed on the target group but never
\* spliced out of the source group
removeAndPushKeep(gs, activeGroup, aid, targetGroupId) ==
  LET sourceGroupIndex == findGroupIndex(gs, activeGroup)
      targetGroupIndex == findGroupIndex(gs, targetGroupId)
  IN IF sourceGroupIndex = -1 \/ targetGroupIndex = -1 THEN Outcome(gs, gs, TRUE)
     ELSE LET g2 == [gs EXCEPT ![targetGroupIndex + 1].items = Append(@, aid)]
          IN Outcome(g2, g2, FALSE)

\* a faulty removeAndPush: unshift instead of push
removeAndPushFront(gs, activeGroup, aid, targetGroupId) ==
  LET sourceGroupIndex == findGroupIndex(gs, activeGroup)
  IN IF sourceGroupIndex = -1 THEN Outcome(gs, gs, TRUE)
     ELSE
       LET src == gs[sourceGroupIndex + 1].items
           itemIndex == IndexOf(src, aid)
           movedItem == First(SpliceRemoved(src, itemIndex))
           g1 == [gs EXCEPT ![sourceGroupIndex + 1].items = SpliceRemove(src, itemIndex)]
           targetGroupIndex == findGroupIndex(g1, targetGroupId)
       IN IF targetGroupIndex = -1 THEN Outcome(g1, g1, TRUE)
          ELSE
            LET g2 == [g1 EXCEPT ![targetGroupIndex + 1].items = <<movedItem>> \o @]
            IN Outcome(g2, g2, FALSE)

\* remove the item from the source group, push it on the target group
removeAndPush(gs, activeGroup, aid, targetGroupId) ==
  LET sourceGroupIndex == findGroupIndex(gs, activeGroup)
  IN IF sourceGroupIndex = -1 THEN Outcome(gs, gs, TRUE)
     ELSE
       LET src == gs[sourceGroupIndex + 1].items
           itemIndex == IndexOf(src, aid)
           movedItem == First(SpliceRemoved(src, itemIndex))
           g1 == [gs EXCEPT ![sourceGroupIndex + 1].items = SpliceRemove(src, itemIndex)]
           targetGroupIndex == findGroupIndex(g1, targetGroupId)
       IN IF targetGroupIndex = -1 THEN Outcome(g1, g1, TRUE)
          ELSE
            LET g2 == [g1 EXCEPT ![targetGroupIndex + 1].items = Append(@, movedItem)]
            IN Outcome(g2, g2, FALSE)

\* updater of "dropping on empty placeholder"
emptyUpdater(gs, active, over) == removeAndPush(gs, active.groupId, active.id, over.groupId)

\* updater of "dropping onto a group directly"
headerUpdater(gs, active, over) == removeAndPush(gs, active.groupId, active.id, over.id)

\* a faulty itemUpdater: within a group the two items are swapped, across
\* groups the item is put in after the target item
itemUpdaterSwap(gs, active, over) ==
  LET activeGroup == active.groupId
      overGroup == over.groupId
  IN IF activeGroup = overGroup
       THEN LET groupIndex == findGroupIndex(gs, activeGroup)
            IN IF groupIndex = -1 THEN Outcome(gs, gs, TRUE)
               ELSE
                 LET its == gs[groupIndex + 1].items
                     oldIndex == IndexOf(its, active.id)
                     newIndex == IndexOf(its, over.id)
                     g1 == [gs EXCEPT ![groupIndex + 1].items =
                              [its EXCEPT ![oldIndex + 1] = its[newIndex + 1], ![newIndex + 1] = its[oldIndex + 1]]]
                 IN Outcome(g1, g1, FALSE)
       ELSE LET sourceGroupIndex == findGroupIndex(gs, activeGroup)
            IN IF sourceGroupIndex = -1 THEN Outcome(gs, gs, TRUE)
               ELSE
                 LET src == gs[sourceGroupIndex + 1].items
                     itemIndex == IndexOf(src, active.id)
                     movedItem == First(SpliceRemoved(src, itemIndex))
                     g1 == [gs EXCEPT ![sourceGroupIndex + 1].items = SpliceRemove(src, itemIndex)]
                     targetGroupIndex == findGroupIndex(g1, overGroup)
                 IN IF targetGroupIndex = -1 THEN Outcome(g1, g1, TRUE)
                    ELSE
                      LET tgt == g1[targetGroupIndex + 1].items
                          targetIndex == IndexOf(tgt, over.id)
                          g2 == [g1 EXCEPT ![targetGroupIndex + 1].items = SpliceInsert(tgt, targetIndex + 1, movedItem)]
                      IN Outcome(g2, g2, FALSE)

\* updater of "dropping onto another item"
itemUpdater(gs, active, over) ==
  LET activeGroup == active.groupId
      overGroup == over.groupId
  IN IF activeGroup = overGroup
       THEN LET groupIndex == findGroupIndex(gs, activeGroup)
            IN IF groupIndex = -1 THEN Outcome(gs, gs, TRUE)
               ELSE
                 LET its == gs[groupIndex + 1].items
                     oldIndex == IndexOf(its, active.id)
                     newIndex == IndexOf(its, over.id)
                     g1 == [gs EXCEPT ![groupIndex + 1].items = arrayMove(its, oldIndex, newIndex)]
                 IN Outcome(g1, g1, FALSE)
       ELSE LET sourceGroupIndex == findGroupIndex(gs, activeGroup)
            IN IF sourceGroupIndex = -1 THEN Outcome(gs, gs, TRUE)
               ELSE
                 LET src == gs[sourceGroupIndex + 1].items
                     itemIndex == IndexOf(src, active.id)
                     movedItem == First(SpliceRemoved(src, itemIndex))
                     g1 == [gs EXCEPT ![sourceGroupIndex + 1].items = SpliceRemove(src, itemIndex)]
                     targetGroupIndex == findGroupIndex(g1, overGroup)
                 IN IF targetGroupIndex = -1 THEN Outcome(g1, g1, TRUE)
                    ELSE
                      LET tgt == g1[targetGroupIndex + 1].items
                          targetIndex == IndexOf(tgt, over.id)
                          g2 == [g1 EXCEPT ![targetGroupIndex + 1].items = SpliceInsert(tgt, targetIndex, movedItem)]
                      IN Outcome(g2, g2, FALSE)

\* a faulty groupUpdater: the two indices handed to arrayMove are exchanged
groupUpdaterSwapped(gs, active, over) ==
  LET overGroupId == IF over.type = "group" THEN over.id ELSE over.groupId
      oldIndex == findGroupIndex(gs, active.id)
      newIndex == findGroupIndex(gs, overGroupId)
  IN Outcome(arrayMove(gs, newIndex, oldIndex), gs, FALSE)

\* updater of the group drag: a new array, the previous one is not touched
groupUpdater(gs, active, over) ==
  LET overGroupId == IF over.type = "group" THEN over.id ELSE over.groupId
      oldIndex == findGroupIndex(gs, active.id)
      newIndex == findGroupIndex(gs, overGroupId)
  IN Outcome(arrayMove(gs, oldIndex, newIndex), gs, FALSE)

\* a faulty toggleUpdater: the group is collapsed, whatever its flag was
toggleUpdaterCollapse(gs, groupId) ==
  Outcome([k \in 1..Len(gs) |->
             IF gs[k].id = groupId THEN [gs[k] EXCEPT !.isCollapsed = Some(TRUE)] ELSE gs[k]],
          gs, FALSE)

\* a faulty toggleUpdater: the id is not compared, every group is flipped
toggleUpdaterAll(gs, groupId) ==
  Outcome([k \in 1..Len(gs) |-> [gs[k] EXCEPT !.isCollapsed = Not(@)]], gs, FALSE)

\* updater of the collapse toggle: map with a spread copy of the one group
toggleUpdater(gs, groupId) ==
  Outcome([k \in 1..Len(gs) |->
             IF gs[k].id = groupId THEN [gs[k] EXCEPT !.isCollapsed = Not(@)] ELSE gs[k]],
          gs, FALSE)

\* a faulty dragEndUpdater: a dragged item takes the group-header branch for
\* every target that is not an empty placeholder
dragEndUpdaterElse(gs, active, over) ==
  IF active.type = "group" /\ active.id # over.id
    THEN LET overGroupId == IF over.type = "group" THEN over.id ELSE over.groupId
         IN IF overGroupId # Undefined
              THEN groupUpdater(gs, active, over)
              ELSE Outcome(gs, gs, FALSE)
    ELSE IF active.type = "item"
      THEN IF over.type = "empty" THEN emptyUpdater(gs, active, over)
           ELSE headerUpdater(gs, active, over)
      ELSE Outcome(gs, gs, FALSE)

\* the updater handleDragEnd hands to setGroups for an event with a drop
\* target; no updater (the list is left alone) is Outcome(gs, gs, FALSE)
dragEndUpdater(gs, active, over) ==
  IF active.type = "group" /\ active.id # over.id
    THEN LET overGroupId == IF over.type = "group" THEN over.id ELSE over.groupId
         IN IF overGroupId # Undefined
              THEN groupUpdater(gs, active, over)
              ELSE Outcome(gs, gs, FALSE)
    ELSE IF active.type = "item"
      THEN IF over.type = "empty" THEN emptyUpdater(gs, active, over)
           ELSE IF over.type = "group" THEN headerUpdater(gs, active, over)
           ELSE IF over.type = "item" /\ active.id # over.id THEN itemUpdater(gs, active, over)
           ELSE Outcome(gs, gs, FALSE)
      ELSE Outcome(gs, gs, FALSE)

\* the same choice in the revision of the component that has no empty
\* placeholders and no indicator: a group header appends, every other target
\* with another id is handled as an item
dragEndUpdater001(gs, active, over) ==
  IF active.type = "group" /\ active.id # over.id
    THEN LET overGroupId == IF over.type = "group" THEN over.id ELSE over.groupId
         IN IF overGroupId # Undefined
              THEN groupUpdater(gs, active, over)
              ELSE Outcome(gs, gs, FALSE)
    ELSE IF active.type = "item"
      THEN IF over.type = "group" THEN headerUpdater(gs, active, over)
           ELSE IF active.id # over.id THEN itemUpdater(gs, active, over)
           ELSE Outcome(gs, gs, FALSE)
      ELSE Outcome(gs, gs, FALSE)

\* rendering a list that holds an undefined item reads item.id of undefined
RenderThrows(gs) == \E k \in 1..Len(gs) : Undefined \in Range(gs[k].items)

\* ------------------------------------------------------------ the gesture
Idle == activeId = None

\* event.active of the running gesture: the element reported at drag start
Active == [id |-> activeId[1], type |-> activeData[1].type, groupId |-> activeData[1].groupId]

Event(op, active, over, groupId) == [op |-> op, active |-> active, over |-> over, groupId |-> groupId]

\* elements of events that may refer to things that are no longer (or never
\* were) in the list: the mounted elements, and besides them a stale group,
\* its placeholder, an element without metadata, and a few items (one of
\* them stale) with every owner, right, wrong, stale or absent
AllGroupIds == Range(SeedGroupIds) \cup {StaleGroupId}
ProbeItemIds == {"item-1", "item-4", StaleItemId}
UnknownElement(x) == [id |-> x, type |-> Undefined, groupId |-> Undefined]
ProbeItems == {ItemElement(i, g) : i \in ProbeItemIds, g \in AllGroupIds \cup {Undefined}}
AnyDraggables(gs) == Draggables(gs) \cup ProbeItems \cup {GroupElement(StaleGroupId)}
AnyDroppables(gs) ==
  Droppables(gs) \cup ProbeItems
    \cup {GroupElement(StaleGroupId), EmptyElement(StaleGroupId), UnknownElement(StaleItemId)}

Options(S) == {None} \cup {Some(x) : x \in S}

\* --------------------------------------------------------------- handlers
\* Each handler is one action. setGroups(updater) is taken with the render
\* that follows it: the updater runs once on the current list. A TypeError
\* in the updater or in that render (error) takes the component down, so no
\* handler runs after it. snapshot, snapshotAfter and lastEvent record the
\* list before the last operation, what that previous list object holds
\* after it, and the event, for the properties below; ops counts operations.
Init ==
  /\ groups = SeedGroups
  /\ activeId = None
  /\ activeData = None
  /\ dropIndicator = None
  /\ error = FALSE
  /\ snapshot = SeedGroups
  /\ snapshotAfter = SeedGroups
  /\ lastEvent = Event("init", None, None, None)
  /\ ops = 0

handleToggleCollapse(groupId) ==
  /\ ~error
  /\ LET out == toggleUpdater(groups, groupId)
     IN /\ groups' = out.groups
        /\ snapshot' = groups
        /\ snapshotAfter' = out.prev
  /\ lastEvent' = Event("toggle", None, None, Some(groupId))
  /\ ops' = ops + 1
  /\ UNCHANGED <<activeId, activeData, dropIndicator, error>>

\* the gesture library runs one gesture at a time
handleDragStart(el) ==
  /\ ~error
  /\ Idle
  /\ activeId' = Some(el.id)
  /\ activeData' = Some([type |-> el.type, groupId |-> el.groupId])
  /\ lastEvent' = Event("dragStart", Some(el), None, None)
  /\ snapshot' = groups
  /\ snapshotAfter' = groups
  /\ UNCHANGED <<groups, dropIndicator, error, ops>>

\* a faulty moveIndicator: the dragged element's type is not looked at, so a
\* dragged group gets an indicator as well
moveIndicatorAnyType(current, active, over) ==
  IF over = None THEN None
  ELSE
    LET overType == over[1].type
    IN IF overType = "empty" THEN Some([groupId |-> over[1].groupId, itemIndex |-> None])
       ELSE IF overType = "group" THEN Some([groupId |-> over[1].id, itemIndex |-> Some(0)])
       ELSE IF overType = "item" /\ getItemNumber(over[1].id) # None
         THEN Some([groupId |-> over[1].groupId,
                    itemIndex |-> Some(getItemNumber(over[1].id)[1] - 1)])
       ELSE current

\* the indicator handleDragMove sets; "unchanged" is the current one
moveIndicator(current, active, over) ==
  IF over = None \/ active.type # "item" THEN None
  ELSE
    LET overType == over[1].type
        overGroupId == IF overType = "group" THEN over[1].id ELSE over[1].groupId
    IN IF overType = "empty" THEN Some([groupId |-> overGroupId, itemIndex |-> None])
       ELSE IF overType = "group" THEN Some([groupId |-> over[1].id, itemIndex |-> Some(0)])
       ELSE IF overType = "item"
         THEN LET overItemNumber == getItemNumber(over[1].id)
              IN IF overItemNumber # None
                   THEN Some([groupId |-> overGroupId, itemIndex |-> Some(overItemNumber[1] - 1)])
                   ELSE current
       ELSE current

\* a faulty handleDragMove: the list is reordered while the pointer moves
handleDragMoveLive(over) ==
  /\ ~error
  /\ ~Idle
  /\ dropIndicator' = moveIndicator(dropIndicator, Active, over)
  /\ groups' = IF over = None THEN groups ELSE dragEndUpdater(groups, Active, over[1]).groups
  /\ lastEvent' = Event("dragMove", Some(Active), over, None)
  /\ UNCHANGED <<activeId, activeData, error, snapshot, snapshotAfter, ops>>

handleDragMove(over) ==
  /\ ~error
  /\ ~Idle
  /\ dropIndicator' = moveIndicator(dropIndicator, Active, over)
  /\ lastEvent' = Event("dragMove", Some(Active), over, None)
  /\ UNCHANGED <<groups, activeId, activeData, error, snapshot, snapshotAfter, ops>>

handleDragEnd(over) ==
  /\ ~error
  /\ ~Idle
  /\ LET out == IF over = None THEN Outcome(groups, groups, FALSE)
                ELSE dragEndUpdater(groups, Active, over[1])
     IN /\ groups' = out.groups
        /\ snapshot' = groups
        /\ snapshotAfter' = out.prev
        /\ error' = (out.threw \/ RenderThrows(out.groups))
  /\ activeId' = None
  /\ activeData' = None
  /\ dropIndicator' = None
  /\ lastEvent' = Event("dragEnd", Some(Active), over, None)
  /\ ops' = ops + 1

\* ---------------------------------------------------------- specifications
\* the component under the gesture library: events refer to mounted elements
ToggleCollapse == ops < MaxOps /\ \E k \in 1..Len(groups) : handleToggleCollapse(groups[k].id)
DragStart == ops < MaxOps /\ \E el \in Draggables(groups) : handleDragStart(el)
DragMove == ops < MaxOps /\ \E over \in Options(Droppables(groups)) : handleDragMove(over)
DragEnd == ops < MaxOps /\ \E over \in Options(Droppables(groups)) : handleDragEnd(over)

Next == ToggleCollapse \/ DragStart \/ DragMove \/ DragEnd

Spec == Init /\ [][Next]_vars

\* gestures that drag an item onto a group header or an empty placeholder
\* only: fewer events, so that longer runs (a group emptied, then dropped
\* on) stay in reach
DragStartItem == ops < MaxAppends /\ \E el \in RenderedItems(groups) : handleDragStart(el)
DragEndAppend ==
  ops < MaxAppends /\ \E over \in RenderedGroups(groups) \cup RenderedEmpties(groups) : handleDragEnd(Some(over))

NextAppend == DragStartItem \/ DragEndAppend

SpecAppend == Init /\ [][NextAppend]_vars

\* the handlers under synthetic events, stale references included
ToggleAny == ops < MaxStaleOps /\ \E g \in AllGroupIds : handleToggleCollapse(g)
DragStartAny == ops < MaxStaleOps /\ \E el \in AnyDraggables(groups) : handleDragStart(el)
DragMoveAny == ops < MaxStaleOps /\ \E over \in Options(AnyDroppables(groups)) : handleDragMove(over)
DragEndAny == ops < MaxStaleOps /\ \E over \in Options(AnyDroppables(groups)) : handleDragEnd(over)

NextAny == ToggleAny \/ DragStartAny \/ DragMoveAny \/ DragEndAny

SpecAny == Init /\ [][NextAny]_vars

\* ================================================================ claims
\* reading the recorded event and the lists before and after it
EvActive == lastEvent.active[1]
EvOver == lastEvent.over[1]
Dropped == lastEvent.op = "dragEnd" /\ lastEvent.over # None
ItemDropped == Dropped /\ EvActive.type = "item"
GroupDropped == Dropped /\ EvActive.type = "group"

GroupIds(gs) == [k \in 1..Len(gs) |-> gs[k].id]
HasGroup(gs, g) == \E k \in 1..Len(gs) : gs[k].id = g
GroupOf(gs, g) == gs[findGroupIndex(gs, g) + 1]
ItemsOf(gs, g) == GroupOf(gs, g).items
\* the groups that hold item i
Owners(gs, i) == {k \in 1..Len(gs) : i \in Range(gs[k].items)}
Occurrences(gs, i) == {<<k, j>> \in (1..Len(gs)) \X (1..(Len(ItemId) + 1)) : j <= Len(gs[k].items) /\ gs[k].items[j] = i}
\* a sequence without the element x
Without(s, x) == SelectSeq(s, LAMBDA y : y # x)
\* the list without the group g
WithoutGroup(gs, g) == SelectSeq(gs, LAMBDA r : r.id # g)
\* the sequence s with x put in at 0-based index k
InsertAt(s, k, x) == SubSeq(s, 1, k) \o <<x>> \o SubSeq(s, k + 1, Len(s))
\* every group other than those named is as it was, and so is the group order
OthersUnchanged(except) ==
  /\ GroupIds(groups) = GroupIds(snapshot)
  /\ \A k \in 1..Len(snapshot) : snapshot[k].id \notin except => groups[k] = snapshot[k]

\* The revision without placeholders, given the drop the list has just seen
\* (on a group header or an item, the targets it mounts), yields the same list
Revision001SameList ==
  (Dropped /\ EvOver.type \in {"group", "item"})
    => dragEndUpdater001(snapshot, EvActive, EvOver).groups = groups

\* C1: conservation. In every reachable state every seed item occurs exactly
\* once in the whole list, so in exactly one group, and the groups hold
\* nothing but seed items: no item is lost, duplicated or orphaned. The
\* revision without placeholders yields the same lists.
C1_Conservation ==
  /\ Revision001SameList
  /\ \A i \in Range(ItemId) : Cardinality(Occurrences(groups, i)) = 1
  /\ \A k \in 1..Len(groups) : Range(groups[k].items) \subseteq Range(ItemId)
  /\ Len(groups) = Len(SeedGroupIds)
  /\ Range(GroupIds(groups)) = Range(SeedGroupIds)

\* C1 witness: after two operations an item sits in another group than the
\* seed put it in, and a drag-end has just changed the list
C1_Witness ==
  /\ ops = MaxOps
  /\ lastEvent.op = "dragEnd"
  /\ groups # snapshot
  /\ \E k \in 1..Len(groups) : groups[k].id = "group-3" /\ "item-1" \in Range(groups[k].items)

\* an id names a group, an item or the empty placeholder of a group of gs
Resolves(gs, x) ==
  \/ HasGroup(gs, x)
  \/ Owners(gs, x) # {}
  \/ \E k \in 1..Len(gs) : x = EmptyId(gs[k].id)

\* C2: invalid target id is a no-op. After a drag-end whose over id names no
\* group, item or empty placeholder of the list, the list equals the list
\* before the drag-end, whatever type and owner the event gives for the target.
C2_InvalidTargetNoOp ==
  (Dropped /\ ~Resolves(snapshot, EvOver.id)) => groups = snapshot

\* the lookups of a dragged item that can miss
SourceGroupMissing == ~HasGroup(snapshot, EvActive.groupId)
ItemMissing == HasGroup(snapshot, EvActive.groupId) /\ EvActive.id \notin Range(ItemsOf(snapshot, EvActive.groupId))
TargetGroupId == IF EvOver.type = "group" THEN EvOver.id ELSE EvOver.groupId
TargetGroupMissing == ~HasGroup(snapshot, TargetGroupId)

\* C3: a stale source reference is a silent no-op. After a drag-end of an
\* item whose source group, whose place in the named source group or whose
\* target group is not found in the list, no error was raised and the list
\* equals the list before.
C3_StaleReferenceNoOp ==
  (ItemDropped /\ (SourceGroupMissing \/ ItemMissing \/ TargetGroupMissing))
    => (~error /\ groups = snapshot)

\* C4: the reorder engine does not mutate its input. After a drag-end that
\* moved an item, the previous snapshot holds what it held before, and the
\* updater applied again to that previous snapshot gives the list it gave the
\* first time.
C4_InputNotMutated ==
  (/\ ItemDropped
   /\ groups # snapshot
   /\ \/ EvOver.type \in {"empty", "group"}
      \/ EvOver.type = "item" /\ EvOver.groupId # EvActive.groupId)
    => /\ snapshotAfter = snapshot
       /\ dragEndUpdater(snapshotAfter, EvActive, EvOver).groups = groups

\* C5: group reorder is an array move. After a group S was dropped on
\* something else whose group T is not S, S stands at the index T had before,
\* the other groups keep their order, and every group is the record it was
\* (items and collapsed flag). Dropped on an item or placeholder of S itself,
\* the list is as before.
C5_GroupReorder ==
  (GroupDropped /\ EvOver.id # EvActive.id)
    => IF TargetGroupId # EvActive.id
         THEN /\ Len(groups) = Len(snapshot)
              /\ groups[findGroupIndex(snapshot, TargetGroupId) + 1] = GroupOf(snapshot, EvActive.id)
              /\ WithoutGroup(groups, EvActive.id) = WithoutGroup(snapshot, EvActive.id)
         ELSE groups = snapshot

\* C5 witness: [G1,G2,G3] with G3 dropped on G1's header gave [G3,G1,G2]
C5_Witness ==
  /\ GroupDropped
  /\ GroupIds(snapshot) = SeedGroupIds
  /\ EvActive.id = "group-3"
  /\ EvOver = GroupElement("group-1")
  /\ GroupIds(groups) = <<"group-3", "group-1", "group-2">>

\* C6: a move within a group is an array move. After item a was dropped on
\* another item t of the same group, a stands at the index t had before, the
\* other items of the group keep their order, and the group order and every
\* other group are as before.
C6_WithinGroupMove ==
  (/\ ItemDropped
   /\ EvOver.type = "item"
   /\ EvOver.id # EvActive.id
   /\ EvOver.groupId = EvActive.groupId)
    => LET old == ItemsOf(snapshot, EvActive.groupId)
           new == ItemsOf(groups, EvActive.groupId)
       IN /\ Len(new) = Len(old)
          /\ new[IndexOf(old, EvOver.id) + 1] = EvActive.id
          /\ Without(new, EvActive.id) = Without(old, EvActive.id)
          /\ GroupOf(groups, EvActive.groupId).isCollapsed = GroupOf(snapshot, EvActive.groupId).isCollapsed
          /\ OthersUnchanged({EvActive.groupId})

\* C6 witness: a group [A,B,C,D] with D dropped on B became [A,D,B,C]
C6_Witness ==
  /\ ItemDropped
  /\ EvOver.type = "item"
  /\ EvOver.groupId = EvActive.groupId
  /\ LET old == ItemsOf(snapshot, EvActive.groupId)
         new == ItemsOf(groups, EvActive.groupId)
     IN /\ Len(old) = 4
        /\ EvActive.id = old[4]
        /\ EvOver.id = old[2]
        /\ new = <<old[1], old[4], old[2], old[3]>>

\* C7: a drop on an item of another group inserts before it. After item a
\* of group S was dropped on item t of another group T, S holds its old items
\* without a, T holds its old items with a put in at the index t had (t and
\* what follows shifted by one, nothing replaced), all else is as before.
C7_CrossGroupInsert ==
  (/\ ItemDropped
   /\ EvOver.type = "item"
   /\ EvOver.groupId # EvActive.groupId)
    => LET oldS == ItemsOf(snapshot, EvActive.groupId)
           oldT == ItemsOf(snapshot, EvOver.groupId)
       IN /\ ItemsOf(groups, EvActive.groupId) = Without(oldS, EvActive.id)
          /\ ItemsOf(groups, EvOver.groupId) = InsertAt(oldT, IndexOf(oldT, EvOver.id), EvActive.id)
          /\ Len(ItemsOf(groups, EvActive.groupId)) = Len(oldS) - 1
          /\ GroupOf(groups, EvActive.groupId).isCollapsed = GroupOf(snapshot, EvActive.groupId).isCollapsed
          /\ GroupOf(groups, EvOver.groupId).isCollapsed = GroupOf(snapshot, EvOver.groupId).isCollapsed
          /\ OthersUnchanged({EvActive.groupId, EvOver.groupId})

\* C7 witness: source [A,B], target [X,Y], B dropped on Y: source [A],
\* target [X,B,Y]
C7_Witness ==
  /\ ItemDropped
  /\ EvActive = ItemElement("item-5", "group-2")
  /\ EvOver = ItemElement("item-7", "group-3")
  /\ ItemsOf(snapshot, "group-2") = <<"item-4", "item-5">>
  /\ ItemsOf(snapshot, "group-3") = <<"item-6", "item-7">>
  /\ ItemsOf(groups, "group-2") = <<"item-4">>
  /\ ItemsOf(groups, "group-3") = <<"item-6", "item-5", "item-7">>

\* C8: a drop on an empty placeholder or on a group header appends. After
\* item a was dropped on the placeholder or header of group T, T holds its
\* old items (without a, when T is a's own group) followed by a, the source
\* group holds its old items without a, all else is as before; T may be
\* empty, and then holds a alone.
C8_AppendDrop ==
  (ItemDropped /\ EvOver.type \in {"empty", "group"})
    => LET S == EvActive.groupId
           T == TargetGroupId
       IN /\ ItemsOf(groups, T) = Append(Without(ItemsOf(snapshot, T), EvActive.id), EvActive.id)
          /\ ItemsOf(groups, S) = IF S = T THEN ItemsOf(groups, T)
                                  ELSE Without(ItemsOf(snapshot, S), EvActive.id)
          /\ Len(ItemsOf(groups, S)) + Len(ItemsOf(groups, T))
               = Len(ItemsOf(snapshot, S)) + Len(ItemsOf(snapshot, T))
          /\ GroupOf(groups, S).isCollapsed = GroupOf(snapshot, S).isCollapsed
          /\ GroupOf(groups, T).isCollapsed = GroupOf(snapshot, T).isCollapsed
          /\ OthersUnchanged({S, T})

\* C8 witness: an item was dropped on the placeholder of an empty group of
\* another group's, which now holds that item alone
C8_Witness ==
  /\ ItemDropped
  /\ EvOver.type = "empty"
  /\ EvOver.groupId # EvActive.groupId
  /\ ItemsOf(snapshot, EvOver.groupId) = <<>>
  /\ ItemsOf(groups, EvOver.groupId) = <<EvActive.id>>
  /\ EvActive.id \notin Range(ItemsOf(groups, EvActive.groupId))

\* C9: no-op drops. After a drag-end with no drop target, or of an item
\* onto itself, or of a group onto its own header, the list (group order,
\* items and collapsed flag of every group) is as before.
C9_NoOpDrops ==
  (lastEvent.op = "dragEnd" /\ (lastEvent.over = None \/ EvOver.id = EvActive.id))
    => groups = snapshot

\* C9 witness: after an earlier change of the list an item was dropped on
\* itself
C9_Witness ==
  /\ ItemDropped
  /\ EvOver = EvActive
  /\ groups # SeedGroups
  /\ groups = snapshot

\* C10: the indicator for a hovered item. After a drag-move of an item over
\* item t, the indicator names t's group and the index of t in that group's
\* items.
C10_IndicatorIsIndex ==
  (/\ lastEvent.op = "dragMove"
   /\ lastEvent.over # None
   /\ EvActive.type = "item"
   /\ EvOver.type = "item")
    => dropIndicator =
         Some([groupId |-> EvOver.groupId,
               itemIndex |-> Some(IndexOf(ItemsOf(groups, EvOver.groupId), EvOver.id))])

\* C11: indicator lifecycle. In every reachable state the indicator is set
\* only while a gesture is active and the dragged element is an item. After
\* a drag-move of a group, and after a drag-move with no target, the
\* indicator is none. After every drag-end, with or without a target and
\* whether or not the list changed, the indicator, the active id and the
\* active metadata are none.
C11_IndicatorLifecycle ==
  /\ dropIndicator # None => (~Idle /\ activeData # None /\ activeData[1].type = "item")
  /\ (lastEvent.op = "dragMove" /\ (EvActive.type = "group" \/ lastEvent.over = None))
       => dropIndicator = None
  /\ lastEvent.op = "dragEnd"
       => (dropIndicator = None /\ activeId = None /\ activeData = None)

\* C11 witness: after an earlier operation a group is dragged over an item
\* of another group, and no indicator is set
C11_Witness ==
  /\ ops >= 1
  /\ lastEvent.op = "dragMove"
  /\ lastEvent.over # None
  /\ EvActive.type = "group"
  /\ EvOver.type = "item"
  /\ EvOver.groupId # EvActive.id
  /\ dropIndicator = None
  /\ ~Idle

\* the id the last collapse toggle was called with
Toggled == lastEvent.op = "toggle"
EvGroupId == lastEvent.groupId[1]

Collapsed(gs) == [k \in 1..Len(gs) |-> [id |-> gs[k].id, collapsed |-> Truthy(gs[k].isCollapsed)]]
toggleTwice(gs, g) == toggleUpdater(toggleUpdater(gs, g).groups, g).groups

\* C13: the collapse toggle is an involution on the collapsed flag. For
\* every reachable list and every group id, toggling the id twice gives a
\* list in which every group is collapsed exactly if it was collapsed; and
\* after a toggle, a second toggle of the same id gives back the collapsed
\* flags of the list before the first.
C13_ToggleInvolution ==
  /\ \A g \in AllGroupIds : Collapsed(toggleTwice(groups, g)) = Collapsed(groups)
  /\ Toggled => Collapsed(toggleUpdater(groups, EvGroupId).groups) = Collapsed(snapshot)

\* C13 witness: a seed group, which has no flag, was toggled twice: its flag
\* is now false, and the list is not collapsed anywhere, as the seed list
C13_Witness ==
  /\ Toggled
  /\ ops = 2
  /\ GroupOf(groups, EvGroupId).isCollapsed = Some(FALSE)
  /\ GroupOf(SeedGroups, EvGroupId).isCollapsed = None
  /\ Collapsed(groups) = Collapsed(SeedGroups)
  /\ groups # SeedGroups

\* item a is found in list gs where indicator ind says: in the group ind
\* names, at the index it names, or last in the group if it names the end
Landed(gs, ind, a) ==
  /\ HasGroup(gs, ind.groupId)
  /\ LET items == ItemsOf(gs, ind.groupId)
     IN /\ a \in Range(items)
        /\ IF ind.itemIndex = None
             THEN items[Len(items)] = a
             ELSE IndexOf(items, a) = ind.itemIndex[1]

\* C14: the indicator predicts the landing position. When the drag-end of an
\* item follows a drag-move over the same target (an empty placeholder, a
\* group header, or an item of the same or another group), the item is found
\* after the drag-end in the group and at the position the indicator named
\* at that move.
C14_IndicatorPredictsLanding ==
  [][(/\ lastEvent.op = "dragMove"
      /\ lastEvent'.op = "dragEnd"
      /\ lastEvent.over # None
      /\ lastEvent'.over = lastEvent.over
      /\ EvActive.type = "item"
      /\ dropIndicator # None)
       => Landed(groups', dropIndicator[1], EvActive.id)]_vars

\* the list a drag-end gives, from the list and the event's active and over
EndList(gs, active, over) ==
  IF over = None THEN gs ELSE dragEndUpdater(gs, active, over[1]).groups

\* C15: only drag-end and collapse-toggle change the list. A drag-start and
\* a drag-move leave the list as it is, and a drag-start leaves the indicator
\* as it is. So when a gesture ends with no toggle since its start (the list
\* is still the one the drag-start recorded), the list after the drag-end is
\* the one the drag-end's active and over data give from the list at the
\* start of the gesture, however many drag-moves came in between and
\* whatever the indicator is.
C15_OnlyEndAndToggleChangeList ==
  [][/\ lastEvent'.op \in {"dragStart", "dragMove"} => groups' = groups
     /\ lastEvent'.op = "dragStart" => dropIndicator' = dropIndicator
     /\ (lastEvent'.op = "dragEnd" /\ lastEvent.op \in {"dragStart", "dragMove"}
           /\ snapshot = groups)
          => groups' = EndList(snapshot, lastEvent'.active[1], lastEvent'.over)]_vars

\* C15 witness: after an earlier change of the list a gesture of an item has
\* seen a drag-move that set the indicator, and the list is still the one
\* the drag-start recorded
C15_Witness ==
  /\ lastEvent.op = "dragMove"
  /\ EvActive.type = "item"
  /\ dropIndicator # None
  /\ groups = snapshot
  /\ groups # SeedGroups
  /\ ops >= 1

====
